---- MODULE Spec2Model ----
(***************************************************************************)
(* Estate ledger: the registration / transfer pipeline of                  *)
(* usePropertyRegistry.ts over the Supabase tables `properties` and        *)
(* `transfers` (migrations), driven by the two page forms.                 *)
(*                                                                         *)
(* Strings are sequences of one-character strings, so that toLowerCase,    *)
(* trim and the regular expressions are computed, not assumed.             *)
(***************************************************************************)
EXTENDS Integers, Sequences, FiniteSets, TLC

----------------------------------------------------------------------------
(* Characters and string helpers *)

LowerAlpha == <<"a","b","c","d","e","f","g","h","i","j","k","l","m",
                "n","o","p","q","r","s","t","u","v","w","x","y","z">>

UpperAlpha == <<"A","B","C","D","E","F","G","H","I","J","K","L","M",
                "N","O","P","Q","R","S","T","U","V","W","X","Y","Z">>

Digits == {"0","1","2","3","4","5","6","7","8","9"}

HexChars == Digits \cup {"a","b","c","d","e","f","A","B","C","D","E","F"}

Whitespace == {" "}

UpperLetters == {UpperAlpha[i] : i \in DOMAIN UpperAlpha}

\* String.prototype.toLowerCase, one character
ToLowerChar(c) ==
  IF \E i \in DOMAIN UpperAlpha : UpperAlpha[i] = c
    THEN LowerAlpha[CHOOSE i \in DOMAIN UpperAlpha : UpperAlpha[i] = c]
    ELSE c

\* String.prototype.toUpperCase, one character
ToUpperChar(c) ==
  IF \E i \in DOMAIN LowerAlpha : LowerAlpha[i] = c
    THEN UpperAlpha[CHOOSE i \in DOMAIN LowerAlpha : LowerAlpha[i] = c]
    ELSE c

toLowerCase(s) == [i \in DOMAIN s |-> ToLowerChar(s[i])]

\* faulty variant: the voter id tested as typed
toUpperCaseSkipped(s) == s

toUpperCase(s) == [i \in DOMAIN s |-> ToUpperChar(s[i])]

\* String.prototype.trim
RECURSIVE trim(_)
trim(s) ==
  IF s = <<>> THEN s
  ELSE IF Head(s) \in Whitespace THEN trim(Tail(s))
  ELSE IF s[Len(s)] \in Whitespace THEN trim(SubSeq(s, 1, Len(s) - 1))
  ELSE s

\* n copies of the character c
Rep(c, n) == [i \in 1..n |-> c]

\* an empty string is falsy in JavaScript
Truthy(s) == s # <<>>

----------------------------------------------------------------------------
(* The regular expressions of the two validateForm functions *)

WalletHexLen == 40

PhoneLen == 10

AadhaarLen == 12

VoterLetters == 3

VoterDigits == 7

\* /^\d{n}$/
IsDigitString(s, n) == Len(s) = n /\ \A i \in 1..n : s[i] \in Digits

\* /^0x[a-fA-F0-9]{40}$/
IsWalletAddress(s) ==
  /\ Len(s) = WalletHexLen + 2
  /\ s[1] = "0"
  /\ s[2] = "x"
  /\ \A i \in 3..Len(s) : s[i] \in HexChars

\* /^[^\s@]+@[^\s@]+\.[^\s@]+$/
IsEmail(s) ==
  /\ \A i \in DOMAIN s : s[i] \notin Whitespace
  /\ Cardinality({i \in DOMAIN s : s[i] = "@"}) = 1
  /\ \E i \in DOMAIN s :
       /\ s[i] = "@"
       /\ i >= 2
       /\ \E j \in DOMAIN s : j >= i + 2 /\ j <= Len(s) - 1 /\ s[j] = "."

\* /^[A-Z]{3}\d{7}$/
IsVoterId(s) ==
  /\ Len(s) = VoterLetters + VoterDigits
  /\ \A i \in 1..VoterLetters : s[i] \in UpperLetters
  /\ \A i \in (VoterLetters + 1)..Len(s) : s[i] \in Digits

----------------------------------------------------------------------------
(* String values *)

Str0x == <<"0", "x">>

\* The state holds a string by its name; Text gives its characters.
WalletA == "0xaa..aa"

WalletAUpper == "0xAA..AA"

WalletB == "0xbb..bb"

NameAlice == "Alice"

NameBob == "Bob"

NameBlank == " "

PhoneOk == "9999999999"

EmailOk == "a@b.c"

AadhaarOk == "111111111111"

VoterOk == "abc7777777"

VoterUpper == "ABC7777777"

VoterBad == "AB77777777"

AadhaarShort == "11111111111"

PhoneShort == "99999"

EmailNoTld == "a@b"

WalletBad == "0x12"

LandText == "Plot"

FileName == "doc.pdf"

FileNameCopy == "copy.pdf"

FileNameScan == "scan.png"

PropFirst == "PROP-1"

PropSecond == "PROP-2"

PropUnknown == "PROP-9"

PropPrefix == <<"P", "R", "O", "P", "-">>

Text(s) ==
  CASE s = "" -> <<>>
    [] s = WalletA -> Str0x \o Rep("a", WalletHexLen)
    [] s = WalletAUpper -> Str0x \o Rep("A", WalletHexLen)
    [] s = WalletB -> Str0x \o Rep("b", WalletHexLen)
    [] s = NameAlice -> <<"A", "l", "i", "c", "e">>
    [] s = NameBob -> <<"B", "o", "b">>
    [] s = NameBlank -> <<" ">>
    [] s = PhoneOk -> Rep("9", PhoneLen)
    [] s = EmailOk -> <<"a", "@", "b", ".", "c">>
    [] s = AadhaarOk -> Rep("1", AadhaarLen)
    [] s = VoterOk -> <<"a", "b", "c">> \o Rep("7", VoterDigits)
    [] s = VoterUpper -> <<"A", "B", "C">> \o Rep("7", VoterDigits)
    [] s = VoterBad -> <<"A", "B">> \o Rep("7", VoterDigits + 1)
    [] s = AadhaarShort -> Rep("1", AadhaarLen - 1)
    [] s = PhoneShort -> Rep("9", PhoneLen - 5)
    [] s = EmailNoTld -> <<"a", "@", "b">>
    [] s = WalletBad -> Str0x \o <<"1", "2">>
    [] s = LandText -> <<"P", "l", "o", "t">>
    [] s = FileName -> <<"d", "o", "c", ".", "p", "d", "f">>
    [] s = FileNameCopy -> <<"c", "o", "p", "y", ".", "p", "d", "f">>
    [] s = FileNameScan -> <<"s", "c", "a", "n", ".", "p", "n", "g">>
    [] s = PropFirst -> PropPrefix \o <<"1">>
    [] s = PropSecond -> PropPrefix \o <<"2">>
    [] s = PropUnknown -> PropPrefix \o <<"9">>

----------------------------------------------------------------------------
(* Validation: an error map is a function from the failing field keys to    *)
(* the message of the last rule that wrote that key.                        *)

\* faulty variant: validation that stops at the first failing rule
ErrorMapShortCircuit(rules) ==
  LET failing == {i \in DOMAIN rules : rules[i].fails}
      first == CHOOSE i \in failing : \A j \in failing : i <= j
  IN IF failing = {} THEN <<>>
     ELSE [k \in {rules[first].key} |-> rules[first].msg]

\* `errors[key] = msg` executed for every failing rule, in order
ErrorMap(rules) ==
  LET failing == {i \in DOMAIN rules : rules[i].fails}
      keys == {rules[i].key : i \in failing}
      last(k) == CHOOSE i \in failing :
                   /\ rules[i].key = k
                   /\ \A j \in failing : rules[j].key = k => j <= i
  IN [k \in keys |-> rules[last(k)].msg]

Rule(key, fails, msg) == [key |-> key, fails |-> fails, msg |-> msg]

\* a document slot: <<>> is null, <<file>> is a selected File
Missing(doc) == doc = <<>>

\* validateForm of TransferProperty.tsx, rule by rule
TransferRules(data, documents) == <<
  Rule("propertyId", ~Truthy(trim(Text(data.propertyId))), "Property ID is required"),
  Rule("sellerName", ~Truthy(trim(Text(data.sellerName))), "Seller name is required"),
  Rule("sellerWallet", ~IsWalletAddress(Text(data.sellerWallet)), "Invalid wallet address"),
  Rule("sellerPhone", ~IsDigitString(Text(data.sellerPhone), PhoneLen), "Phone must be 10 digits"),
  Rule("sellerEmail", ~IsEmail(Text(data.sellerEmail)), "Invalid email address"),
  Rule("buyerName", ~Truthy(trim(Text(data.buyerName))), "Buyer name is required"),
  Rule("buyerWallet", ~IsWalletAddress(Text(data.buyerWallet)), "Invalid wallet address"),
  Rule("buyerPhone", ~IsDigitString(Text(data.buyerPhone), PhoneLen), "Phone must be 10 digits"),
  Rule("buyerEmail", ~IsEmail(Text(data.buyerEmail)), "Invalid email address"),
  Rule("buyerWallet",
       /\ Truthy(Text(data.sellerWallet))
       /\ Truthy(Text(data.buyerWallet))
       /\ toLowerCase(Text(data.sellerWallet)) = toLowerCase(Text(data.buyerWallet)),
       "Buyer wallet must be different from seller"),
  Rule("sellerAadhaar", Missing(documents.sellerAadhaar), "Seller Aadhaar is required"),
  Rule("sellerPan", Missing(documents.sellerPan), "Seller PAN is required"),
  Rule("sellerPhoto", Missing(documents.sellerPhoto), "Seller photograph is required"),
  Rule("buyerAadhaar", Missing(documents.buyerAadhaar), "Buyer Aadhaar is required"),
  Rule("buyerPan", Missing(documents.buyerPan), "Buyer PAN is required"),
  Rule("buyerPhoto", Missing(documents.buyerPhoto), "Buyer photograph is required"),
  Rule("saleAgreement", Missing(documents.saleAgreement), "Sale agreement is required") >>

validateTransferForm(data, documents) == ErrorMap(TransferRules(data, documents))

\* validateForm of PropertyRegistry.tsx, rule by rule
RegistryRules(data, documents) == <<
  Rule("ownerName", ~Truthy(trim(Text(data.ownerName))), "Owner name is required"),
  Rule("aadhaarNumber", ~IsDigitString(Text(data.aadhaarNumber), AadhaarLen), "Aadhaar must be 12 digits"),
  Rule("voterId", ~IsVoterId(toUpperCase(Text(data.voterId))), "Invalid Voter ID format"),
  Rule("phone", ~IsDigitString(Text(data.phone), PhoneLen), "Phone must be 10 digits"),
  Rule("email", ~IsEmail(Text(data.email)), "Invalid email address"),
  Rule("landAddress", ~Truthy(trim(Text(data.landAddress))), "Land address is required"),
  Rule("landArea", ~Truthy(trim(Text(data.landArea))), "Land area is required"),
  Rule("surveyNumber", ~Truthy(trim(Text(data.surveyNumber))), "Survey number is required"),
  Rule("district", ~Truthy(trim(Text(data.district))), "District is required"),
  Rule("state", ~Truthy(trim(Text(data.state))), "State is required"),
  Rule("aadhaarFront", Missing(documents.aadhaarFront), "Aadhaar front is required"),
  Rule("aadhaarBack", Missing(documents.aadhaarBack), "Aadhaar back is required"),
  Rule("panCard", Missing(documents.panCard), "PAN card is required"),
  Rule("ownerPhoto", Missing(documents.ownerPhoto), "Owner photograph is required"),
  Rule("propertyPhoto", Missing(documents.propertyPhoto), "Property photograph is required"),
  Rule("ownershipDocument", Missing(documents.ownershipDocument), "Ownership document is required") >>

validateRegistryForm(data, documents) == ErrorMap(RegistryRules(data, documents))

\* faulty variant: the error map not looked at
HasErrorsIgnored(errors) == FALSE

\* Object.keys(validationErrors).length > 0
HasErrors(errors) == DOMAIN errors # {}

----------------------------------------------------------------------------
(* Inputs: the values a user can type, a wallet can expose and the          *)
(* generator can return.                                                    *)

Clients == {"c1", "c2"}

\* WalletContext.address as each client's provider may report it when a
\* form is submitted; "" stands for `null` (not connected)
Accounts(c) ==
  CASE c = "c1" -> {"", WalletAUpper, WalletB}
    [] c = "c2" -> {"", WalletA}

FilePdf == [name |-> FileName]

\* the identifiers generatePropertyId can return in this model
PropertyIds == {PropFirst, PropSecond}

TransferDocKeys == {"sellerAadhaar", "sellerPan", "sellerPhoto", "buyerAadhaar",
                    "buyerPan", "buyerPhoto", "saleAgreement"}

RegistryDocKeys == {"aadhaarFront", "aadhaarBack", "panCard", "ownerPhoto",
                    "propertyPhoto", "ownershipDocument"}

AllTransferDocs == [k \in TransferDocKeys |-> <<FilePdf>>]

AllRegistryDocs == [k \in RegistryDocKeys |-> <<FilePdf>>]

TransferDocInputs == {AllTransferDocs}

RegistryDocInputs ==
  {AllRegistryDocs, [AllRegistryDocs EXCEPT !["panCard"] = <<>>]}

TransferFormInputs ==
  [propertyId : {PropFirst, PropUnknown, ""},
   sellerName : {NameAlice},
   sellerWallet : {WalletA, WalletB},
   sellerPhone : {PhoneOk},
   sellerEmail : {EmailOk},
   buyerName : {NameBob},
   buyerWallet : {WalletAUpper, WalletB},
   buyerPhone : {PhoneOk},
   buyerEmail : {EmailOk}]

RegistryFormInputs ==
  [ownerName : {NameAlice, NameBlank},
   aadhaarNumber : {AadhaarOk},
   voterId : {VoterOk},
   phone : {PhoneOk},
   email : {EmailOk},
   landAddress : {LandText},
   landArea : {LandText},
   surveyNumber : {LandText},
   district : {LandText},
   state : {LandText}]

TransferSubmissions == TransferFormInputs \X TransferDocInputs

RegistrySubmissions == RegistryFormInputs \X RegistryDocInputs

\* the submissions handleSubmit passes on (an empty error map), enumerated
AcceptedTransfers ==
  {acc : acc \in {sub \in TransferSubmissions :
                    ~HasErrors(validateTransferForm(sub[1], sub[2]))}}

RejectedTransfers == TransferSubmissions \ AcceptedTransfers

\* the non-empty error maps the transfer inputs produce
TransferErrorMaps ==
  {validateTransferForm(sub[1], sub[2]) : sub \in RejectedTransfers}

AcceptedRegistrations ==
  {acc : acc \in {sub \in RegistrySubmissions :
                    ~HasErrors(validateRegistryForm(sub[1], sub[2]))}}

RejectedRegistrations == RegistrySubmissions \ AcceptedRegistrations

\* the non-empty error maps the registration inputs produce
RegistryErrorMaps ==
  {validateRegistryForm(sub[1], sub[2]) : sub \in RejectedRegistrations}

\* The forms and documents validateForm is exercised on by itself: a valid
\* submission with up to two fields retyped and up to two documents removed.

RegistryBaseForm ==
  [ownerName |-> NameAlice, aadhaarNumber |-> AadhaarOk, voterId |-> VoterUpper,
   phone |-> PhoneOk, email |-> EmailOk, landAddress |-> LandText,
   landArea |-> LandText, surveyNumber |-> LandText, district |-> LandText,
   state |-> LandText]

RegistryFieldValues(f) ==
  CASE f = "ownerName" -> {NameAlice, NameBlank, ""}
    [] f = "aadhaarNumber" -> {AadhaarOk, AadhaarShort}
    [] f = "voterId" -> {VoterUpper, VoterOk, VoterBad}
    [] f = "phone" -> {PhoneOk, PhoneShort}
    [] f = "email" -> {EmailOk, EmailNoTld}
    [] OTHER -> {LandText, ""}

TransferBaseForm ==
  [propertyId |-> PropFirst, sellerName |-> NameAlice, sellerWallet |-> WalletA,
   sellerPhone |-> PhoneOk, sellerEmail |-> EmailOk, buyerName |-> NameBob,
   buyerWallet |-> WalletB, buyerPhone |-> PhoneOk, buyerEmail |-> EmailOk]

TransferFieldValues(f) ==
  CASE f = "propertyId" -> {PropFirst, ""}
    [] f = "sellerName" -> {NameAlice, NameBlank}
    [] f = "buyerName" -> {NameBob, ""}
    [] f = "sellerWallet" -> {WalletA, WalletB, WalletBad, ""}
    [] f = "buyerWallet" -> {WalletB, WalletAUpper, WalletBad, ""}
    [] f \in {"sellerPhone", "buyerPhone"} -> {PhoneOk, PhoneShort}
    [] OTHER -> {EmailOk, EmailNoTld}

\* base with the fields f and g retyped, for every choice of f, g and values
Retyped(base, values(_)) ==
  UNION {UNION {{[base EXCEPT ![f] = v, ![g] = w] : v \in values(f), w \in values(g)}
                  : g \in DOMAIN base}
           : f \in DOMAIN base}

\* all documents selected but those of one set of at most two slots
DocumentChoices(keys) ==
  {[k \in keys |-> IF k \in {a, b} THEN <<>> ELSE <<FilePdf>>] : a, b \in keys}
    \cup {[k \in keys |-> <<FilePdf>>]}

RegistryValidationInputs ==
  {acc : acc \in Retyped(RegistryBaseForm, RegistryFieldValues)
                   \X DocumentChoices(RegistryDocKeys)}

TransferValidationInputs ==
  {acc : acc \in Retyped(TransferBaseForm, TransferFieldValues)
                   \X DocumentChoices(TransferDocKeys)}

----------------------------------------------------------------------------
(* Bounds *)

\* settlements the ledger seam confirms in one run
MaxTx == 2

\* objects the bucket holds when uploadDocument is exercised on its own
MaxObjects == 2

----------------------------------------------------------------------------
(* State *)

VARIABLES
  properties,      \* table public.properties, in insertion (created_at) order
  transfers,       \* table public.transfers, in insertion (created_at) order
  storage,         \* bucket property-documents: the set of object names
  txCount,         \* settlements confirmed so far
  op,              \* the registerProperty / transferProperty call of each client
  isProcessing,    \* usePropertyRegistry.isProcessing of each client
  currentReceipt,  \* usePropertyRegistry.currentReceipt, <<>> when null
  registrant,      \* history: who registered each property_id
  hookProperties,  \* usePropertyRegistry's `properties` list of each client
  isLoading        \* usePropertyRegistry.isLoading of each client

vars == <<properties, transfers, storage, txCount, op, isProcessing,
          currentReceipt, registrant, hookProperties, isLoading>>

\* the state of a mounted hook instance that no operation touches
hook == <<hookProperties, isLoading>>

store == <<properties, transfers, storage>>

\* no call made yet
IdleOp ==
  [kind |-> "none", pc |-> "idle", toast |-> "", error |-> "", addr |-> "",
   form |-> <<>>, documents |-> <<>>, propertyId |-> "", property |-> <<>>,
   hash |-> 0, blockNumber |-> 0, documentUrls |-> <<>>, wrote |-> {},
   returned |-> <<>>, errors |-> <<>>, uploads |-> <<>>]

Init ==
  /\ properties = <<>>
  /\ transfers = <<>>
  /\ storage = {}
  /\ txCount = 0
  /\ op = [c \in Clients |-> IdleOp]
  /\ isProcessing = [c \in Clients |-> FALSE]
  /\ currentReceipt = [c \in Clients |-> <<>>]
  /\ registrant = [id \in PropertyIds |-> <<>>]
  /\ hookProperties = [c \in Clients |-> <<>>]
  /\ isLoading = [c \in Clients |-> FALSE]

----------------------------------------------------------------------------
(* Identity Context *)

\* const isConnected = !!address
isConnected(addr) == Truthy(Text(addr))

\* faulty variant: the connection check left out
NotConnectedIgnored(addr) == FALSE

\* if (!isConnected || !address)
NotConnected(addr) == ~isConnected(addr) \/ ~Truthy(Text(addr))

----------------------------------------------------------------------------
(* Settlement stub *)

BlockBase == 5000000

\* simulateTransaction: the reference of the n-th settlement
TxHash(n) == n

TxBlock(n) == BlockBase + n

\* faulty variant: a settlement whose promise never resolves
LedgerStalled == FALSE

\* the ledger seam confirms one more settlement
LedgerHasRoom == txCount < MaxTx

----------------------------------------------------------------------------
(* Registry Store: tables, constraints and row level security *)

\* CREATE POLICY statements of the migrations, per table
Policies(table) ==
  CASE table = "properties" -> {"SELECT", "INSERT"}
    [] table = "transfers" -> {"SELECT", "INSERT"}
    [] table = "storage.objects" -> {"SELECT", "INSERT"}

\* row level security is enabled: a command without a policy sees no rows
RlsAllows(table, command) == command \in Policies(table)

\* faulty variant: the query without its .eq filter
SelectAnyProperty(tbl, id) == IF tbl = <<>> THEN <<>> ELSE <<tbl[1]>>

\* .from('properties').select('*').eq('property_id', id).maybeSingle()
SelectProperty(tbl, id) ==
  IF RlsAllows("properties", "SELECT")
    THEN SelectSeq(tbl, LAMBDA r : r.property_id = id)
    ELSE <<>>

\* faulty variant: the column without its UNIQUE constraint
PropertyIdNeverTaken(tbl, id) == FALSE

\* property_id TEXT NOT NULL UNIQUE
PropertyIdTaken(tbl, id) == \E i \in DOMAIN tbl : tbl[i].property_id = id

\* property_id TEXT NOT NULL REFERENCES public.properties(property_id)
ForeignKeyHolds(tbl, id) == \E i \in DOMAIN tbl : tbl[i].property_id = id

\* faulty variant: a failed INSERT that leaves its row behind
InsertedAnyway(tbl, row, committed) == Append(tbl, row)

\* an INSERT either commits the row or, on an error, leaves the table as it was
Inserted(tbl, row, committed) == IF committed THEN Append(tbl, row) ELSE tbl

\* faulty variant: the update without its filter, rewriting the land address
UpdateOwnerUnfiltered(tbl, id, name, wallet) ==
  [i \in DOMAIN tbl |->
     [tbl[i] EXCEPT !.owner_name = name, !.owner_wallet = wallet,
                    !.land_address = ""]]

\* .from('properties').update({owner_name, owner_wallet}).eq('property_id', id)
UpdateOwner(tbl, id, name, wallet) ==
  [i \in DOMAIN tbl |->
     IF tbl[i].property_id = id /\ RlsAllows("properties", "UPDATE")
       THEN [tbl[i] EXCEPT !.owner_name = name, !.owner_wallet = wallet]
       ELSE tbl[i]]

\* faulty variant: the row written without the results of the uploads
PropertyRowNoUrls(id, propertyId, formData, addr, hash, blockNumber, documentUrls) ==
  [id |-> id,
   property_id |-> propertyId,
   owner_name |-> formData.ownerName,
   owner_wallet |-> addr,
   aadhaar_number |-> formData.aadhaarNumber,
   voter_id |-> formData.voterId,
   phone |-> formData.phone,
   email |-> formData.email,
   land_address |-> formData.landAddress,
   land_area |-> formData.landArea,
   survey_number |-> formData.surveyNumber,
   district |-> formData.district,
   state |-> formData.state,
   transaction_hash |-> hash,
   block_number |-> blockNumber,
   urls |-> [col \in DOMAIN documentUrls |-> <<>>]]

\* faulty variant: the row written without the settlement's reference
PropertyRowNoTx(id, propertyId, formData, addr, hash, blockNumber, documentUrls) ==
  [id |-> id,
   property_id |-> propertyId,
   owner_name |-> formData.ownerName,
   owner_wallet |-> addr,
   aadhaar_number |-> formData.aadhaarNumber,
   voter_id |-> formData.voterId,
   phone |-> formData.phone,
   email |-> formData.email,
   land_address |-> formData.landAddress,
   land_area |-> formData.landArea,
   survey_number |-> formData.surveyNumber,
   district |-> formData.district,
   state |-> formData.state,
   transaction_hash |-> 0,
   block_number |-> 0,
   urls |-> documentUrls]

\* the row registerProperty inserts
PropertyRow(id, propertyId, formData, addr, hash, blockNumber, documentUrls) ==
  [id |-> id,
   property_id |-> propertyId,
   owner_name |-> formData.ownerName,
   owner_wallet |-> addr,
   aadhaar_number |-> formData.aadhaarNumber,
   voter_id |-> formData.voterId,
   phone |-> formData.phone,
   email |-> formData.email,
   land_address |-> formData.landAddress,
   land_area |-> formData.landArea,
   survey_number |-> formData.surveyNumber,
   district |-> formData.district,
   state |-> formData.state,
   transaction_hash |-> hash,
   block_number |-> blockNumber,
   urls |-> documentUrls]

\* the row transferProperty inserts
TransferRow(id, formData, hash, blockNumber) ==
  [id |-> id,
   property_id |-> formData.propertyId,
   seller_name |-> formData.sellerName,
   seller_wallet |-> formData.sellerWallet,
   seller_phone |-> formData.sellerPhone,
   seller_email |-> formData.sellerEmail,
   buyer_name |-> formData.buyerName,
   buyer_wallet |-> formData.buyerWallet,
   buyer_phone |-> formData.buyerPhone,
   buyer_email |-> formData.buyerEmail,
   transaction_hash |-> hash,
   block_number |-> blockNumber]

----------------------------------------------------------------------------
(* Document Store Adapter *)

\* file.name.split('.').pop()
RECURSIVE FileExt(_)
FileExt(name) ==
  IF \E i \in DOMAIN name : name[i] = "."
    THEN FileExt(SubSeq(name, 1 + (CHOOSE i \in DOMAIN name : name[i] = "." /\
                                     \A j \in 1..(i - 1) : name[j] # "."), Len(name)))
    ELSE name

\* the docType argument registerProperty passes for each document slot
DocType(k) ==
  CASE k = "aadhaarFront" -> "aadhaar-front"
    [] k = "aadhaarBack" -> "aadhaar-back"
    [] k = "panCard" -> "pan-card"
    [] k = "ownerPhoto" -> "owner-photo"
    [] k = "propertyPhoto" -> "property-photo"
    [] k = "ownershipDocument" -> "ownership-document"

\* the column each upload result is keyed by
UrlColumn(k) ==
  CASE k = "aadhaarFront" -> "aadhaar_front_url"
    [] k = "aadhaarBack" -> "aadhaar_back_url"
    [] k = "panCard" -> "pan_card_url"
    [] k = "ownerPhoto" -> "owner_photo_url"
    [] k = "propertyPhoto" -> "property_photo_url"
    [] k = "ownershipDocument" -> "ownership_document_url"

\* `${propertyId}/${docType}.${fileExt}`
ObjectName(file, propertyId, docType) ==
  [propertyId |-> propertyId, docType |-> docType, ext |-> FileExt(Text(file.name))]

\* upload(fileName, file, { upsert: true }) against the bucket's policies:
\* a new object needs INSERT, replacing an object needs UPDATE
UploadAccepted(objects, name) ==
  IF name \in objects
    THEN RlsAllows("storage.objects", "UPDATE")
    ELSE RlsAllows("storage.objects", "INSERT")

\* the sets of uploads lost to transport errors that a run explores
LostUploadSets == {{}, {"panCard"}}

\* files a user can pick for a document slot
DocumentFiles == {FilePdf, [name |-> FileNameCopy], [name |-> FileNameScan]}

----------------------------------------------------------------------------
(* Orchestrator: shared pieces *)

\* the submit button is disabled while isProcessing, and the form gives way
\* to the receipt card while a receipt is held
CanSubmit(c) == ~isProcessing[c] /\ currentReceipt[c] = <<>>

\* a RegisteredProperty as fetchProperties maps it from a row (the land
\* details and the dates, which no operation reads back, are left out)
MapProperty(p) ==
  [id |-> p.id, propertyId |-> p.property_id, ownerName |-> p.owner_name,
   ownerAddress |-> p.owner_wallet, transactionHash |-> p.transaction_hash,
   blockNumber |-> p.block_number]

\* .order('created_at', { ascending: false })
RECURSIVE NewestFirst(_)
NewestFirst(tbl) ==
  IF tbl = <<>> THEN <<>> ELSE NewestFirst(Tail(tbl)) \o <<Head(tbl)>>

\* the list fetchProperties sets
FetchedList(tbl) ==
  LET rows == NewestFirst(tbl) IN [i \in DOMAIN rows |-> MapProperty(rows[i])]

\* newProperty of registerProperty
NewProperty(row, o) ==
  [id |-> row.id, propertyId |-> o.propertyId, ownerName |-> o.form.ownerName,
   ownerAddress |-> o.addr, transactionHash |-> o.hash,
   blockNumber |-> o.blockNumber]

\* prev.map(p => p.propertyId === formData.propertyId ? {...p, owner} : p)
PatchOwner(list, formData) ==
  [i \in DOMAIN list |->
     IF list[i].propertyId = formData.propertyId
       THEN [list[i] EXCEPT !.ownerAddress = formData.buyerWallet,
                            !.ownerName = formData.buyerName]
       ELSE list[i]]

\* properties.find(p => p.propertyId === propertyId), <<>> when undefined
getPropertyById(c, propertyId) ==
  LET hits == SelectSeq(hookProperties[c], LAMBDA p : p.propertyId = propertyId)
  IN IF hits = <<>> THEN <<>> ELSE <<hits[1]>>

\* the mount effect's query returns: the list is replaced, or on an error
\* only logged; either way the hook stops loading
FetchedProperties(c) ==
  /\ isLoading[c]
  /\ \E delivered \in BOOLEAN :
       hookProperties' = [hookProperties EXCEPT ![c] =
                            IF delivered THEN FetchedList(properties) ELSE @]
  /\ isLoading' = [isLoading EXCEPT ![c] = FALSE]
  /\ UNCHANGED <<store, txCount, op, isProcessing, currentReceipt, registrant>>

\* what remains of a call once it has returned
Returned(o, title, err, value) ==
  [IdleOp EXCEPT !.kind = o.kind, !.pc = "done", !.toast = title, !.error = err,
                 !.propertyId = o.propertyId, !.hash = o.hash,
                 !.wrote = o.wrote, !.returned = value]

\* a call that ended in its catch block: generic toast, `return null`
Thrown(o, title, err) == Returned(o, title, err, <<>>)

\* an early `return null` with its toast
Refused(o, title) == Returned(o, title, "", <<>>)

\* faulty variant: no finally block
FinallyMissing(c) == isProcessing

\* finally { setIsProcessing(false) }
Finally(c) == [isProcessing EXCEPT ![c] = FALSE]

\* handleSubmit with a non-empty error map: setErrors(errors), toast, return
Rejected(kind, errors) ==
  [Returned([IdleOp EXCEPT !.kind = kind], "Validation Error", "ValidationFailed", <<>>)
     EXCEPT !.errors = errors]

\* handleReceiptClose: the page is left and its hook instance discarded
CloseReceipt(c) ==
  /\ currentReceipt[c] # <<>>
  /\ ~isProcessing[c]
  /\ currentReceipt' = [currentReceipt EXCEPT ![c] = <<>>]
  /\ op' = [op EXCEPT ![c] = IdleOp]
  /\ hookProperties' = [hookProperties EXCEPT ![c] = <<>>]
  /\ isLoading' = [isLoading EXCEPT ![c] = TRUE]
  /\ UNCHANGED <<store, txCount, isProcessing, registrant>>

----------------------------------------------------------------------------
(* registerProperty *)

\* faulty variant: the receipt built before the settlement's reference is known
RegistrationReceiptNoTx(propertyId, formData, addr, hash, blockNumber) ==
  [type |-> "registration",
   propertyId |-> propertyId,
   propertyDetails |-> [address |-> formData.landAddress,
                        area |-> formData.landArea,
                        surveyNumber |-> formData.surveyNumber,
                        district |-> formData.district,
                        state |-> formData.state],
   parties |-> [owner |-> formData.ownerName, ownerWallet |-> addr],
   transaction |-> [hash |-> 0, blockNumber |-> 0]]

\* the receipt registerProperty builds
RegistrationReceipt(propertyId, formData, addr, hash, blockNumber) ==
  [type |-> "registration",
   propertyId |-> propertyId,
   propertyDetails |-> [address |-> formData.landAddress,
                        area |-> formData.landArea,
                        surveyNumber |-> formData.surveyNumber,
                        district |-> formData.district,
                        state |-> formData.state],
   parties |-> [owner |-> formData.ownerName, ownerWallet |-> addr],
   transaction |-> [hash |-> hash, blockNumber |-> blockNumber]]

\* handleSubmit of PropertyRegistry.tsx up to the first await of
\* registerProperty: validation, connection check, setIsProcessing(true),
\* generatePropertyId, and the settlement request
SubmitRegistration(c) ==
  /\ CanSubmit(c)
  /\ \/ /\ \E errors \in RegistryErrorMaps :
             op' = [op EXCEPT ![c] = Rejected("register", errors)]
        /\ UNCHANGED isProcessing
     \/ \E addr \in Accounts(c) :
          IF NotConnected(addr)
            THEN /\ AcceptedRegistrations # {}
                 /\ op' = [op EXCEPT ![c] =
                             Refused([IdleOp EXCEPT !.kind = "register"],
                                     "Wallet not connected")]
                 /\ UNCHANGED isProcessing
            ELSE /\ \E sub \in AcceptedRegistrations, id \in PropertyIds :
                      op' = [op EXCEPT ![c] =
                               [IdleOp EXCEPT !.kind = "register", !.pc = "settle",
                                              !.addr = addr, !.form = sub[1],
                                              !.documents = sub[2],
                                              !.propertyId = id]]
                 /\ isProcessing' = [isProcessing EXCEPT ![c] = TRUE]
  /\ UNCHANGED <<store, txCount, currentReceipt, registrant, hook>>

\* simulateTransaction resolves; the uploads are started
RegisterSettled(c) ==
  /\ op[c].kind = "register"
  /\ op[c].pc = "settle"
  /\ LedgerHasRoom
  /\ txCount' = txCount + 1
  /\ op' = [op EXCEPT ![c].pc = "upload",
                      ![c].hash = TxHash(txCount + 1),
                      ![c].blockNumber = TxBlock(txCount + 1)]
  /\ UNCHANGED <<store, isProcessing, currentReceipt, registrant, hook>>

\* what each started uploadDocument call returns: the URL of the object it
\* stored, <<name>>, or null, <<>>
UploadResults(o, objects, lost) ==
  [k \in {k \in RegistryDocKeys : ~Missing(o.documents[k])} |->
     LET name == ObjectName(o.documents[k][1], o.propertyId, DocType(k))
     IN IF k \notin lost /\ UploadAccepted(objects, name) THEN <<name>> ELSE <<>>]

\* Promise.all(uploadPromises) resolves: every upload has returned a URL or
\* null; the insert is issued
RegisterUploaded(c) ==
  /\ op[c].kind = "register"
  /\ op[c].pc = "upload"
  /\ \E lost \in LostUploadSets :
       \E results \in {UploadResults(op[c], storage, lost)} :
         LET stored == {k \in DOMAIN results : results[k] # <<>>}
         IN /\ storage' = storage \cup {results[k][1] : k \in stored}
            /\ op' = [op EXCEPT
                 ![c].pc = "insert",
                 ![c].wrote = IF stored = {} THEN @ ELSE @ \cup {"storage.upload"},
                 ![c].documentUrls =
                   [col \in {UrlColumn(k) : k \in DOMAIN results} |->
                      results[CHOOSE k \in DOMAIN results : UrlColumn(k) = col]]]
  /\ UNCHANGED <<properties, transfers, txCount, isProcessing, currentReceipt,
                 registrant, hook>>

\* the insert into properties returns: dbError is thrown, or the local state
\* is updated and the receipt returned
RegisterInserted(c) ==
  /\ op[c].kind = "register"
  /\ op[c].pc = "insert"
  /\ \E delivered \in BOOLEAN :
       LET o == op[c]
           row == PropertyRow(Len(properties) + 1, o.propertyId, o.form, o.addr,
                              o.hash, o.blockNumber, o.documentUrls)
           receipt == RegistrationReceipt(o.propertyId, o.form, o.addr, o.hash,
                                          o.blockNumber)
           duplicate == PropertyIdTaken(properties, o.propertyId)
           committed == delivered /\ ~duplicate /\ RlsAllows("properties", "INSERT")
       IN /\ properties' = Inserted(properties, row, committed)
          /\ IF committed
               THEN /\ registrant' = [registrant EXCEPT ![o.propertyId] =
                                        <<[name |-> row.owner_name,
                                           wallet |-> row.owner_wallet]>>]
                    /\ currentReceipt' = [currentReceipt EXCEPT ![c] = <<receipt>>]
                    /\ hookProperties' = [hookProperties EXCEPT ![c] =
                                            <<NewProperty(row, o)>> \o @]
                    /\ op' = [op EXCEPT ![c] =
                                Returned([o EXCEPT !.wrote = @ \cup {"properties.insert"}],
                                         "Property Registered Successfully!", "",
                                         <<receipt>>)]
               ELSE /\ op' = [op EXCEPT ![c] =
                                Thrown(o, "Registration Failed",
                                       IF delivered /\ duplicate
                                         THEN "DuplicateKey"
                                         ELSE "PersistenceFailed")]
                    /\ UNCHANGED <<currentReceipt, registrant, hookProperties>>
  /\ isProcessing' = Finally(c)
  /\ UNCHANGED <<transfers, storage, txCount, isLoading>>

\* The same upload phase one promise at a time: uploads[k] is the promise of
\* document k, settled with its URL, or with <<>> for null.

\* the document a failing storage request is drawn for
LostUploadKeys == {"panCard"}

\* the six `if (documents.x) uploadPromises.push(uploadDocument(...))`
UploadsStarted(c) ==
  /\ op[c].kind = "register"
  /\ op[c].pc = "upload"
  /\ op' = [op EXCEPT
       ![c].pc = "uploading",
       ![c].uploads = [k \in {k \in RegistryDocKeys : ~Missing(op[c].documents[k])}
                         |-> [settled |-> FALSE, url |-> <<>>]]]
  /\ UNCHANGED <<store, txCount, isProcessing, currentReceipt, registrant, hook>>

\* one uploadDocument call returns, in any order among those in flight
UploadReturned(c) ==
  /\ op[c].kind = "register"
  /\ op[c].pc = "uploading"
  /\ \E k \in DOMAIN op[c].uploads :
       /\ ~op[c].uploads[k].settled
       /\ \E lost \in IF k \in LostUploadKeys THEN BOOLEAN ELSE {FALSE} :
            LET o == op[c]
                name == ObjectName(o.documents[k][1], o.propertyId, DocType(k))
                stored == ~lost /\ UploadAccepted(storage, name)
            IN /\ storage' = IF stored THEN storage \cup {name} ELSE storage
               /\ op' = [op EXCEPT
                    ![c].uploads[k] =
                      [settled |-> TRUE, url |-> IF stored THEN <<name>> ELSE <<>>],
                    ![c].wrote = IF stored THEN @ \cup {"storage.upload"} ELSE @]
  /\ UNCHANGED <<properties, transfers, txCount, isProcessing, currentReceipt,
                 registrant, hook>>

\* faulty variant: the results read without awaiting the promises
NoneAwaited(uploads) == TRUE

\* Promise.all resolves only when every promise has
AllSettled(uploads) == \A k \in DOMAIN uploads : uploads[k].settled

\* `await Promise.all(uploadPromises)` resolves and forEach fills documentUrls
UploadsJoined(c) ==
  /\ op[c].kind = "register"
  /\ op[c].pc = "uploading"
  /\ AllSettled(op[c].uploads)
  /\ op' = [op EXCEPT
       ![c].pc = "insert",
       ![c].documentUrls =
         [col \in {UrlColumn(k) : k \in DOMAIN op[c].uploads} |->
            LET k == CHOOSE k \in DOMAIN op[c].uploads : UrlColumn(k) = col
            IN op[c].uploads[k].url]]
  /\ UNCHANGED <<store, txCount, isProcessing, currentReceipt, registrant, hook>>

\* uploadDocument(file, propertyId, docType) called on its own: the object is
\* stored unless the bucket's policies reject the request, and the call
\* returns the public URL, or null after logging the error
DocumentUploaded(c) ==
  /\ op[c].kind \in {"none", "upload"}
  /\ Cardinality(storage) < MaxObjects
  /\ \E file \in DocumentFiles, propertyId \in PropertyIds, k \in RegistryDocKeys :
       LET name == ObjectName(file, propertyId, DocType(k))
           stored == UploadAccepted(storage, name)
       IN /\ storage' = IF stored THEN storage \cup {name} ELSE storage
          /\ op' = [op EXCEPT ![c] =
                      [IdleOp EXCEPT !.kind = "upload", !.pc = "done",
                                     !.propertyId = propertyId,
                                     !.documents = <<file>>,
                                     !.returned = IF stored THEN <<name>> ELSE <<>>]]
  /\ UNCHANGED <<properties, transfers, txCount, isProcessing, currentReceipt,
                 registrant, hook>>

\* validateForm of PropertyRegistry.tsx applied to a form and its documents
RegistryValidated(c) ==
  /\ op[c].pc = "idle"
  /\ \E sub \in RegistryValidationInputs :
       op' = [op EXCEPT ![c] =
                [IdleOp EXCEPT !.kind = "validateRegistry", !.pc = "done",
                               !.form = sub[1], !.documents = sub[2],
                               !.errors = validateRegistryForm(sub[1], sub[2])]]
  /\ UNCHANGED <<store, txCount, isProcessing, currentReceipt, registrant, hook>>

\* validateForm of TransferProperty.tsx applied to a form and its documents
TransferValidated(c) ==
  /\ op[c].pc = "idle"
  /\ \E sub \in TransferValidationInputs :
       op' = [op EXCEPT ![c] =
                [IdleOp EXCEPT !.kind = "validateTransfer", !.pc = "done",
                               !.form = sub[1], !.documents = sub[2],
                               !.errors = validateTransferForm(sub[1], sub[2])]]
  /\ UNCHANGED <<store, txCount, isProcessing, currentReceipt, registrant, hook>>

\* the settlement request rejects or times out: the catch block runs
RegisterSettleFailed(c) ==
  /\ op[c].kind = "register"
  /\ op[c].pc = "settle"
  /\ op' = [op EXCEPT ![c] = Thrown(op[c], "Registration Failed", "SettlementFailed")]
  /\ isProcessing' = Finally(c)
  /\ UNCHANGED <<store, txCount, currentReceipt, registrant, hook>>

----------------------------------------------------------------------------
(* transferProperty *)

\* faulty variant: the lookup answered from the hook's own list, each entry
\* standing for its row with the owner the list shows
LookupCache(c) ==
  LET list == hookProperties[c]
      rowOf(p) == CHOOSE r \in {properties[i] : i \in DOMAIN properties} :
                    r.property_id = p.propertyId
  IN [i \in DOMAIN list |->
        [rowOf(list[i]) EXCEPT !.owner_name = list[i].ownerName,
                               !.owner_wallet = list[i].ownerAddress]]

\* supabase.from('properties'): the lookup reads the table, not the hook state
LookupTable(c) == properties

\* faulty variant: no ownership check
IsOwnerUnchecked(property, addr) == TRUE

\* faulty variant: the two addresses compared as they are written
IsOwnerExact(property, addr) == Text(property.owner_wallet) = Text(addr)

\* property.owner_wallet.toLowerCase() === address.toLowerCase()
IsOwner(property, addr) ==
  toLowerCase(Text(property.owner_wallet)) = toLowerCase(Text(addr))

\* the receipt transferProperty builds
TransferReceipt(formData, property, hash, blockNumber) ==
  [type |-> "transfer",
   propertyId |-> formData.propertyId,
   propertyDetails |-> [address |-> property.land_address,
                        area |-> property.land_area,
                        surveyNumber |-> property.survey_number,
                        district |-> property.district,
                        state |-> property.state],
   parties |-> [seller |-> formData.sellerName,
                buyer |-> formData.buyerName,
                sellerWallet |-> formData.sellerWallet,
                buyerWallet |-> formData.buyerWallet],
   transaction |-> [hash |-> hash, blockNumber |-> blockNumber]]

\* handleSubmit of TransferProperty.tsx up to the first await of
\* transferProperty: validation, connection check, setIsProcessing(true) and
\* the property query
SubmitTransfer(c) ==
  /\ CanSubmit(c)
  /\ \/ /\ \E errors \in TransferErrorMaps :
             op' = [op EXCEPT ![c] = Rejected("transfer", errors)]
        /\ UNCHANGED isProcessing
     \/ \E addr \in Accounts(c) :
          IF NotConnected(addr)
            THEN /\ AcceptedTransfers # {}
                 /\ op' = [op EXCEPT ![c] =
                             Refused([IdleOp EXCEPT !.kind = "transfer"],
                                     "Wallet not connected")]
                 /\ UNCHANGED isProcessing
            ELSE /\ \E sub \in AcceptedTransfers :
                      op' = [op EXCEPT ![c] =
                               [IdleOp EXCEPT !.kind = "transfer", !.pc = "lookup",
                                              !.addr = addr, !.form = sub[1],
                                              !.documents = sub[2]]]
                 /\ isProcessing' = [isProcessing EXCEPT ![c] = TRUE]
  /\ UNCHANGED <<store, txCount, currentReceipt, registrant, hook>>

\* the property query returns: fetchError, not found, not the owner, or the
\* settlement is requested
TransferLookedUp(c) ==
  /\ op[c].kind = "transfer"
  /\ op[c].pc = "lookup"
  /\ \E delivered \in BOOLEAN :
       LET o == op[c]
           found == SelectProperty(LookupTable(c), o.form.propertyId)
       IN IF ~delivered
            THEN /\ op' = [op EXCEPT ![c] =
                             Thrown(o, "Transfer Failed", "PersistenceFailed")]
                 /\ isProcessing' = Finally(c)
          ELSE IF found = <<>>
            THEN /\ op' = [op EXCEPT ![c] = Refused(o, "Property Not Found")]
                 /\ isProcessing' = Finally(c)
          ELSE IF ~IsOwner(found[1], o.addr)
            THEN /\ op' = [op EXCEPT ![c] = Refused(o, "Unauthorized")]
                 /\ isProcessing' = Finally(c)
          ELSE /\ op' = [op EXCEPT ![c].pc = "settle", ![c].property = found]
               /\ UNCHANGED isProcessing
  /\ UNCHANGED <<store, txCount, currentReceipt, registrant, hook>>

\* simulateTransaction resolves; the insert into transfers is issued
TransferSettled(c) ==
  /\ op[c].kind = "transfer"
  /\ op[c].pc = "settle"
  /\ LedgerHasRoom
  /\ txCount' = txCount + 1
  /\ op' = [op EXCEPT ![c].pc = "insert",
                      ![c].hash = TxHash(txCount + 1),
                      ![c].blockNumber = TxBlock(txCount + 1)]
  /\ UNCHANGED <<store, isProcessing, currentReceipt, registrant, hook>>

\* the insert into transfers returns: transferError is thrown, or the owner
\* update is issued
TransferInserted(c) ==
  /\ op[c].kind = "transfer"
  /\ op[c].pc = "insert"
  /\ \E delivered \in BOOLEAN :
       LET o == op[c]
           row == TransferRow(Len(transfers) + 1, o.form, o.hash, o.blockNumber)
           committed == /\ delivered
                        /\ RlsAllows("transfers", "INSERT")
                        /\ ForeignKeyHolds(properties, o.form.propertyId)
       IN /\ transfers' = Inserted(transfers, row, committed)
          /\ IF committed
               THEN /\ op' = [op EXCEPT ![c].pc = "update",
                                        ![c].wrote = @ \cup {"transfers.insert"}]
                    /\ UNCHANGED isProcessing
               ELSE /\ op' = [op EXCEPT ![c] =
                                Thrown(o, "Transfer Failed", "PersistenceFailed")]
                    /\ isProcessing' = Finally(c)
  /\ UNCHANGED <<properties, storage, txCount, currentReceipt, registrant, hook>>

\* the owner update returns: updateError is thrown, or the receipt is built
\* and returned
TransferUpdated(c) ==
  /\ op[c].kind = "transfer"
  /\ op[c].pc = "update"
  /\ \E delivered \in BOOLEAN :
       LET o == op[c]
           receipt == TransferReceipt(o.form, o.property[1], o.hash, o.blockNumber)
       IN IF delivered
            THEN /\ properties' = UpdateOwner(properties, o.form.propertyId,
                                              o.form.buyerName, o.form.buyerWallet)
                 /\ currentReceipt' = [currentReceipt EXCEPT ![c] = <<receipt>>]
                 /\ hookProperties' = [hookProperties EXCEPT ![c] =
                                         PatchOwner(@, o.form)]
                 /\ op' = [op EXCEPT ![c] =
                             Returned([o EXCEPT !.wrote =
                                         IF properties' = properties
                                           THEN @
                                           ELSE @ \cup {"properties.update"}],
                                      "Transfer Successful!", "", <<receipt>>)]
            ELSE /\ op' = [op EXCEPT ![c] =
                             Thrown(o, "Transfer Failed", "PersistenceFailed")]
                 /\ UNCHANGED <<properties, currentReceipt, hookProperties>>
  /\ isProcessing' = Finally(c)
  /\ UNCHANGED <<transfers, storage, txCount, registrant, isLoading>>

\* the settlement request rejects or times out: the catch block runs
TransferSettleFailed(c) ==
  /\ op[c].kind = "transfer"
  /\ op[c].pc = "settle"
  /\ op' = [op EXCEPT ![c] = Thrown(op[c], "Transfer Failed", "SettlementFailed")]
  /\ isProcessing' = Finally(c)
  /\ UNCHANGED <<store, txCount, currentReceipt, registrant, hook>>

----------------------------------------------------------------------------
(* Specifications *)

Next ==
  \E c \in Clients :
    \/ SubmitRegistration(c)
    \/ RegisterSettled(c)
    \/ RegisterUploaded(c)
    \/ RegisterInserted(c)
    \/ SubmitTransfer(c)
    \/ TransferLookedUp(c)
    \/ TransferSettled(c)
    \/ TransferInserted(c)
    \/ TransferUpdated(c)
    \/ CloseReceipt(c)

\* the program as written: the settlement stub always resolves
Spec == Init /\ [][Next]_vars

SettlementFault == \E c \in Clients : RegisterSettleFailed(c) \/ TransferSettleFailed(c)

\* the program with a ledger client that can reject behind the settlement seam
SpecFault == Init /\ [][Next \/ SettlementFault]_vars

\* One browser session followed through its pages, with the mount query of
\* each new hook instance returning at any later moment.  No operation reads
\* hookProperties or isLoading, so Spec leaves the query unanswered without
\* losing any state of the store or of the calls.
SessionClient == "c1"

SessionNext ==
  \/ SubmitRegistration(SessionClient)
  \/ RegisterSettled(SessionClient)
  \/ RegisterUploaded(SessionClient)
  \/ RegisterInserted(SessionClient)
  \/ SubmitTransfer(SessionClient)
  \/ TransferLookedUp(SessionClient)
  \/ TransferSettled(SessionClient)
  \/ TransferInserted(SessionClient)
  \/ TransferUpdated(SessionClient)
  \/ CloseReceipt(SessionClient)
  \/ FetchedProperties(SessionClient)

SpecSession == Init /\ [][SessionNext]_vars

\* The registrations of one session with the upload phase taken one promise
\* at a time.
UploadsNext ==
  \/ SubmitRegistration(SessionClient)
  \/ RegisterSettled(SessionClient)
  \/ UploadsStarted(SessionClient)
  \/ UploadReturned(SessionClient)
  \/ UploadsJoined(SessionClient)
  \/ RegisterInserted(SessionClient)
  \/ CloseReceipt(SessionClient)

SpecUploads == Init /\ [][UploadsNext]_vars

\* uploadDocument applied again and again to files, property ids and
\* document types of the caller's choice.
DocumentsNext == DocumentUploaded(SessionClient)

SpecDocuments == Init /\ [][DocumentsNext]_vars

\* The two validateForm functions applied to forms of the caller's choice.
ValidationNext ==
  \/ RegistryValidated(SessionClient)
  \/ TransferValidated(SessionClient)

SpecValidation == Init /\ [][ValidationNext]_vars

\* The transfers of two sessions on a store that already holds two registered
\* properties: PROP-1 of Alice (0xaa..aa) and PROP-2 of Bob (0xbb..bb), each
\* registered with its six documents under an earlier settlement.
RegisteredForm(name) ==
  [ownerName |-> name, aadhaarNumber |-> AadhaarOk, voterId |-> VoterOk,
   phone |-> PhoneOk, email |-> EmailOk, landAddress |-> LandText,
   landArea |-> LandText, surveyNumber |-> LandText, district |-> LandText,
   state |-> LandText]

RegisteredObjects(propertyId) ==
  {ObjectName(FilePdf, propertyId, DocType(k)) : k \in RegistryDocKeys}

RegisteredRow(n, propertyId, name, addr) ==
  PropertyRow(n, propertyId, RegisteredForm(name), addr,
              TxHash(MaxTx + n), TxBlock(MaxTx + n),
              [col \in {UrlColumn(k) : k \in RegistryDocKeys} |->
                 LET k == CHOOSE k \in RegistryDocKeys : UrlColumn(k) = col
                 IN <<ObjectName(FilePdf, propertyId, DocType(k))>>])

InitRegistered ==
  /\ properties = <<RegisteredRow(1, PropFirst, NameAlice, WalletA),
                    RegisteredRow(2, PropSecond, NameBob, WalletB)>>
  /\ transfers = <<>>
  /\ storage = RegisteredObjects(PropFirst) \cup RegisteredObjects(PropSecond)
  /\ txCount = 0
  /\ op = [c \in Clients |-> IdleOp]
  /\ isProcessing = [c \in Clients |-> FALSE]
  /\ currentReceipt = [c \in Clients |-> <<>>]
  /\ registrant = [id \in PropertyIds |->
                     IF id = PropFirst
                       THEN <<[name |-> NameAlice, wallet |-> WalletA]>>
                       ELSE <<[name |-> NameBob, wallet |-> WalletB]>>]
  /\ hookProperties = [c \in Clients |-> <<>>]
  /\ isLoading = [c \in Clients |-> FALSE]

TransfersNext ==
  \E c \in Clients :
    \/ SubmitTransfer(c)
    \/ TransferLookedUp(c)
    \/ TransferSettled(c)
    \/ TransferInserted(c)
    \/ TransferUpdated(c)
    \/ CloseReceipt(c)

SpecTransfers == InitRegistered /\ [][TransfersNext]_vars

\* The program with its awaited calls answered.  simulateTransaction resolves
\* after its two second timer and every storage and table request returns, so
\* a call that is waiting takes its next step: weak fairness on the steps
\* that follow a submission.  A call is submitted only while the run has a
\* settlement left for it.
Awaiting(c) == op[c].pc \in {"lookup", "settle"}

SettlementsLeft == txCount + Cardinality({c \in Clients : Awaiting(c)}) < MaxTx

Continue(c) ==
  \/ RegisterSettled(c)
  \/ RegisterUploaded(c)
  \/ RegisterInserted(c)
  \/ TransferLookedUp(c)
  \/ TransferSettled(c)
  \/ TransferInserted(c)
  \/ TransferUpdated(c)

LiveNext ==
  \E c \in Clients :
    \/ SettlementsLeft /\ SubmitRegistration(c)
    \/ SettlementsLeft /\ SubmitTransfer(c)
    \/ Continue(c)
    \/ CloseReceipt(c)

SpecLive == Init /\ [][LiveNext]_vars /\ \A c \in Clients : WF_vars(Continue(c))

----------------------------------------------------------------------------
(* Claims *)

\* case-insensitive comparison of two stored wallet strings
SameWallet(a, b) == toLowerCase(Text(a)) = toLowerCase(Text(b))

RowsOf(tbl, id) == SelectSeq(tbl, LAMBDA r : r.property_id = id)

\* client c's transfer is waiting for its property query, the property exists
\* and its owner wallet is not the acting address
LookupByNonOwner(c) ==
  /\ op[c].kind = "transfer"
  /\ op[c].pc = "lookup"
  /\ \E i \in DOMAIN properties :
       /\ properties[i].property_id = op[c].form.propertyId
       /\ ~SameWallet(properties[i].owner_wallet, op[c].addr)

\* C1: when the property exists and the acting address is not its owner
\* wallet, the call ends without a receipt, as Unauthorized whenever the query
\* itself returned, and the step writes nothing: no table, no object, no
\* settlement.
C1_UnauthorizedWritesNothing ==
  [][\A c \in Clients :
          LookupByNonOwner(c) /\ op'[c] # op[c]
            => /\ op'[c].pc = "done"
               /\ op'[c].returned = <<>>
               /\ op'[c].wrote = {}
               /\ op'[c].error = "" => op'[c].toast = "Unauthorized"
               /\ store' = store
               /\ txCount' = txCount
               /\ currentReceipt' = currentReceipt]_vars

C1_Witness ==
  \E c \in Clients : op[c].toast = "Unauthorized" /\ transfers # <<>>

\* C2 (as claimed): every row inserted into transfers has a seller wallet
\* equal, up to letter case, to the owner wallet its property has in the
\* store when the row is inserted.
C2_SellerIsOwner ==
  [][Len(transfers') > Len(transfers)
       => LET row == transfers'[Len(transfers')]
          IN \E i \in DOMAIN properties :
               /\ properties[i].property_id = row.property_id
               /\ SameWallet(properties[i].owner_wallet, row.seller_wallet)]_vars

\* C3 (as claimed): when transferProperty returns a receipt, the store's row
\* of that property names the buyer as owner, and the newest row of transfers
\* is the new record.
C3_OwnerIsBuyerAfterReceipt ==
  [][\A c \in Clients :
       op[c].kind = "transfer" /\ op[c].pc = "update" /\ op'[c].returned # <<>>
         => /\ \E i \in DOMAIN properties' :
                 /\ properties'[i].property_id = op[c].form.propertyId
                 /\ properties'[i].owner_name = op[c].form.buyerName
                 /\ properties'[i].owner_wallet = op[c].form.buyerWallet
            /\ transfers' # <<>>
            /\ transfers'[Len(transfers')].transaction_hash = op[c].hash]_vars

TransferInFlight ==
  \E c \in Clients :
    op[c].kind = "transfer" /\ op[c].pc \in {"lookup", "settle", "insert", "update"}

\* C4 (as claimed): while no transfer is in flight, each property's owner is
\* the buyer of its newest transfers row, or its registrant if it has none.
C4_OwnerFollowsTransfers ==
  ~TransferInFlight =>
    \A i \in DOMAIN properties :
      LET p == properties[i]
          ts == RowsOf(transfers, p.property_id)
      IN IF ts = <<>>
           THEN registrant[p.property_id] =
                  <<[name |-> p.owner_name, wallet |-> p.owner_wallet]>>
           ELSE /\ p.owner_name = ts[Len(ts)].buyer_name
                /\ p.owner_wallet = ts[Len(ts)].buyer_wallet

\* client c's transfer is waiting for its property query and no row has its
\* propertyId
LookupOfUnknown(c) ==
  /\ op[c].kind = "transfer"
  /\ op[c].pc = "lookup"
  /\ \A i \in DOMAIN properties :
       properties[i].property_id # op[c].form.propertyId

\* C5: when no row has the propertyId, the call ends without a receipt, as
\* Property Not Found whenever the query itself returned, and the step writes
\* nothing and requests no settlement.
C5_NotFoundWritesNothing ==
  [][\A c \in Clients :
       LookupOfUnknown(c) /\ op'[c] # op[c]
         => /\ op'[c].pc = "done"
            /\ op'[c].returned = <<>>
            /\ op'[c].wrote = {}
            /\ op'[c].hash = 0
            /\ op'[c].error = "" => op'[c].toast = "Property Not Found"
            /\ store' = store
            /\ txCount' = txCount
            /\ currentReceipt' = currentReceipt]_vars

C5_Witness ==
  \E c \in Clients : op[c].toast = "Property Not Found" /\ properties # <<>>

\* C6: no two rows of properties share a property_id, and every row has an
\* owner name and an owner wallet that are not empty.
C6_UniqueIdOneOwner ==
  /\ \A i, j \in DOMAIN properties :
       properties[i].property_id = properties[j].property_id => i = j
  /\ \A i \in DOMAIN properties :
       /\ Truthy(trim(Text(properties[i].owner_name)))
       /\ Truthy(Text(properties[i].owner_wallet))

C6_Witness ==
  /\ Len(properties) = 2
  /\ \E c \in Clients : op[c].kind = "register" /\ op[c].pc = "done"

\* C7 (as claimed): a duplicate-key error of the insert is never what ends a
\* registration as failed.
C7_CollisionNotSurfaced ==
  \A c \in Clients :
    ~(op[c].kind = "register" /\ op[c].pc = "done" /\
      op[c].error = "DuplicateKey" /\ op[c].toast = "Registration Failed")

\* C8: every row of properties and of transfers carries the reference of a
\* settlement that had been confirmed, and a call that has not had its
\* settlement confirmed has written nothing.
C8_RowsCarrySettlement ==
  /\ \A i \in DOMAIN properties :
       /\ properties[i].transaction_hash \in 1..txCount
       /\ properties[i].block_number > 0
  /\ \A i \in DOMAIN transfers :
       /\ transfers[i].transaction_hash \in 1..txCount
       /\ transfers[i].block_number > 0
  /\ \A c \in Clients : op[c].hash = 0 => op[c].wrote = {}

C8_Witness == properties # <<>> /\ transfers # <<>>

C11_BuyerIsNeitherSellerNorOwner ==
  [][Len(transfers') > Len(transfers)
       => LET row == transfers'[Len(transfers')]
          IN /\ ~SameWallet(row.seller_wallet, row.buyer_wallet)
             /\ \A i \in DOMAIN properties :
                  properties[i].property_id = row.property_id
                    => ~SameWallet(properties[i].owner_wallet, row.buyer_wallet)]_vars

\* C12: every row of transfers has the property_id of a row of properties,
\* and a transfer that is past its property query names a property that
\* exists in the store.
C12_TransfersReferenceProperties ==
  /\ \A i \in DOMAIN transfers :
       \E j \in DOMAIN properties :
         properties[j].property_id = transfers[i].property_id
  /\ \A c \in Clients :
       op[c].kind = "transfer" /\ op[c].pc \in {"settle", "insert", "update"}
         => \E j \in DOMAIN properties :
              properties[j].property_id = op[c].form.propertyId

C12_Witness ==
  /\ transfers # <<>>
  /\ \E c \in Clients : op[c].toast = "Property Not Found"

\* C13: the step that decides a transfer reads the store: the call proceeds
\* to settlement only when the store has a row with the propertyId whose
\* owner wallet is the acting address, and it carries that row on; it reports
\* Property Not Found only when the store has no such row and Unauthorized
\* only when the store's row names another owner, whatever the hook's own
\* list shows.
C13_LookupReadsStore ==
  [][\A c \in Clients :
       op[c].kind = "transfer" /\ op[c].pc = "lookup" /\ op'[c] # op[c] /\
       op'[c].error = ""
         => LET rows == RowsOf(properties, op[c].form.propertyId)
            IN /\ op'[c].pc = "settle"
                    => /\ rows # <<>>
                       /\ SameWallet(rows[1].owner_wallet, op[c].addr)
                       /\ op'[c].property = <<rows[1]>>
               /\ op'[c].toast = "Property Not Found" => rows = <<>>
               /\ op'[c].toast = "Unauthorized"
                    => rows # <<>> /\ ~SameWallet(rows[1].owner_wallet, op[c].addr)
               /\ op'[c].pc = "settle" \/ op'[c].pc = "done"]_vars

C13_Witness ==
  \E c \in Clients :
    /\ op[c].kind = "transfer"
    /\ op[c].pc = "settle"
    /\ getPropertyById(c, op[c].form.propertyId) = <<>>

\* C14 (as claimed): when the receipt of a committed registration is closed
\* and the session moves to its next page, getPropertyById still finds the
\* registered property.
C14_RegisteredPropertyStaysReadable ==
  [][\A c \in Clients :
       op[c].kind = "register" /\ op[c].returned # <<>> /\ op'[c] = IdleOp
         => \E i \in DOMAIN hookProperties'[c] :
              hookProperties'[c][i].propertyId = op[c].propertyId]_vars

\* C15: when the uploads of a registration have returned the call goes on to
\* the insert whatever their results; the URL recorded for each document is
\* set exactly when that upload stored a new object for the propertyId and
\* document type; and the row the insert commits carries exactly the recorded
\* URLs.
C15_FailedUploadKeepsRegistration ==
  [][\A c \in Clients :
       /\ op[c].kind = "register" /\ op[c].pc = "upload" /\ op'[c] # op[c]
            => /\ op'[c].pc = "insert"
               /\ op'[c].error = ""
               /\ properties' = properties
               /\ \A k \in RegistryDocKeys :
                    op'[c].documentUrls[UrlColumn(k)] # <<>>
                      <=> \E n \in storage' \ storage :
                            /\ n.propertyId = op[c].propertyId
                            /\ n.docType = DocType(k)
       /\ op[c].kind = "register" /\ op[c].pc = "insert" /\ op'[c].returned # <<>>
            => /\ Len(properties') = Len(properties) + 1
               /\ properties'[Len(properties')].property_id = op[c].propertyId
               /\ properties'[Len(properties')].urls = op[c].documentUrls]_vars

C15_Witness ==
  \E i \in DOMAIN properties :
    \E k, l \in RegistryDocKeys :
      /\ properties[i].urls[UrlColumn(k)] = <<>>
      /\ properties[i].urls[UrlColumn(l)] # <<>>

\* C16: the insert of a registration is issued, and its row committed, only
\* when every upload the call started has returned, with a URL or with null;
\* the call started one upload for each document it was given.
C16_UploadsJoinedBeforeInsert ==
  \A c \in Clients :
    op[c].kind = "register" /\ op[c].pc = "insert"
      => /\ DOMAIN op[c].uploads =
              {k \in RegistryDocKeys : op[c].documents[k] # <<>>}
         /\ \A k \in DOMAIN op[c].uploads : op[c].uploads[k].settled
         /\ \A k \in DOMAIN op[c].uploads :
              op[c].documentUrls[UrlColumn(k)] = op[c].uploads[k].url

C16_Witness ==
  \E c \in Clients :
    /\ op[c].kind = "register" /\ op[c].pc = "insert"
    /\ DOMAIN op[c].uploads = RegistryDocKeys
    /\ \E k, l \in RegistryDocKeys :
         op[c].uploads[k].url = <<>> /\ op[c].uploads[l].url # <<>>

\* C17 (as claimed): whatever files have been uploaded, the bucket holds at
\* most one object for each propertyId and document type.
C17_OneObjectPerDocument ==
  \A propertyId \in PropertyIds :
    \A k \in RegistryDocKeys :
      Cardinality({n \in storage :
                     n.propertyId = propertyId /\ n.docType = DocType(k)}) <= 1

\* C18: a submission with a non-empty error map has ended as a validation
\* error: it is not processing, holds no settlement reference and no receipt,
\* and has written and returned nothing; and every call that is under way was
\* made with a form and documents for which validation returns the empty map.
C18_RejectedSubmissionDoesNothing ==
  \A c \in Clients :
    /\ op[c].errors # <<>>
         => /\ op[c].pc = "done"
            /\ op[c].toast = "Validation Error"
            /\ op[c].hash = 0
            /\ op[c].wrote = {}
            /\ op[c].returned = <<>>
            /\ ~isProcessing[c]
            /\ currentReceipt[c] = <<>>
    /\ op[c].kind = "register" /\ op[c].pc \in {"settle", "upload", "insert"}
         => /\ DOMAIN validateRegistryForm(op[c].form, op[c].documents) = {}
            /\ op[c].errors = <<>>
    /\ op[c].kind = "transfer" /\
       op[c].pc \in {"lookup", "settle", "insert", "update"}
         => /\ DOMAIN validateTransferForm(op[c].form, op[c].documents) = {}
            /\ op[c].errors = <<>>

C18_Witness ==
  \E c, d \in Clients :
    /\ op[c].errors # <<>>
    /\ op[c].toast = "Validation Error"
    /\ op[d].pc = "settle"
    /\ properties # <<>>

\* a string with nothing but white space in it
Blank(s) == \A i \in DOMAIN s : s[i] \in Whitespace

\* three letters from the given set followed by seven digits
VoterShape(s, letters) ==
  /\ Len(s) = VoterLetters + VoterDigits
  /\ \A i \in 1..Len(s) : IF i <= VoterLetters THEN s[i] \in letters
                                                ELSE s[i] \in Digits

AnyCaseLetters == UpperLetters \cup {LowerAlpha[i] : i \in DOMAIN LowerAlpha}

\* the registration fields whose rule fails, the voter id letters being
\* taken from the given set
RegistryFailing(data, documents, letters) ==
  {f \in {"ownerName", "landAddress", "landArea", "surveyNumber", "district",
          "state"} : Blank(Text(data[f]))}
    \cup {f \in {"aadhaarNumber"} : ~IsDigitString(Text(data[f]), AadhaarLen)}
    \cup {f \in {"voterId"} : ~VoterShape(Text(data[f]), letters)}
    \cup {f \in {"phone"} : ~IsDigitString(Text(data[f]), PhoneLen)}
    \cup {f \in {"email"} : ~IsEmail(Text(data[f]))}
    \cup {k \in RegistryDocKeys : documents[k] = <<>>}

\* C19 (amended): with the voter id rule read as three letters of either
\* case followed by seven digits, registration validation returns the empty
\* map for every submission that satisfies all rules, and when exactly one
\* field fails its rule the map's only key is that field.
C19_RegistryValidationByField ==
  \A c \in Clients :
    op[c].kind = "validateRegistry"
      => LET bad == RegistryFailing(op[c].form, op[c].documents, AnyCaseLetters)
         IN /\ bad = {} => DOMAIN op[c].errors = {}
            /\ Cardinality(bad) = 1 => DOMAIN op[c].errors = bad

C19_Witness ==
  \E c \in Clients :
    /\ op[c].kind = "validateRegistry"
    /\ op[c].form.voterId = VoterOk
    /\ DOMAIN op[c].errors = {"email"}

\* C19 (as claimed): the same with the voter id rule read as three uppercase
\* letters followed by seven digits.
C19_UppercaseVoterId ==
  \A c \in Clients :
    op[c].kind = "validateRegistry"
      => LET bad == RegistryFailing(op[c].form, op[c].documents, UpperLetters)
         IN /\ bad = {} => DOMAIN op[c].errors = {}
            /\ Cardinality(bad) = 1 => DOMAIN op[c].errors = bad

\* the transfer rules that fail, each named by its field, the rule that the
\* two wallets differ by "walletsDiffer"
TransferFailing(data, documents) ==
  {f \in {"propertyId", "sellerName", "buyerName"} : Blank(Text(data[f]))}
    \cup {f \in {"sellerWallet", "buyerWallet"} : ~IsWalletAddress(Text(data[f]))}
    \cup {f \in {"sellerPhone", "buyerPhone"} :
            ~IsDigitString(Text(data[f]), PhoneLen)}
    \cup {f \in {"sellerEmail", "buyerEmail"} : ~IsEmail(Text(data[f]))}
    \cup {r \in {"walletsDiffer"} :
            /\ data.sellerWallet # ""
            /\ data.buyerWallet # ""
            /\ SameWallet(data.sellerWallet, data.buyerWallet)}
    \cup {k \in TransferDocKeys : documents[k] = <<>>}

\* the field a failing transfer rule is reported under
RuleField(r) == IF r = "walletsDiffer" THEN "buyerWallet" ELSE r

\* C20 (amended): transfer validation is not short-circuited: the keys of the
\* error map are exactly the fields of the failing rules; the rule that the
\* wallets differ reports under buyerWallet, so when it fails together with
\* the format rule of the buyer wallet the two share one entry, which carries
\* the message of the wallets rule.
C20_TransferValidationByField ==
  \A c \in Clients :
    op[c].kind = "validateTransfer"
      => LET bad == TransferFailing(op[c].form, op[c].documents)
         IN /\ DOMAIN op[c].errors = {RuleField(r) : r \in bad}
            /\ "walletsDiffer" \in bad
                 => op[c].errors["buyerWallet"] =
                      "Buyer wallet must be different from seller"

C20_Witness ==
  \E c \in Clients :
    /\ op[c].kind = "validateTransfer"
    /\ op[c].form.sellerWallet = WalletBad
    /\ op[c].form.buyerWallet = WalletBad
    /\ DOMAIN op[c].errors = {"sellerWallet", "buyerWallet"}

\* C20 (as claimed): the error map has as many entries as there are failing
\* rules.
C20_OneEntryPerFailingRule ==
  \A c \in Clients :
    op[c].kind = "validateTransfer"
      => Cardinality(DOMAIN op[c].errors) =
           Cardinality(TransferFailing(op[c].form, op[c].documents))

\* client c's step is a call of registerProperty or transferProperty
Called(c) ==
  /\ op[c].pc \in {"idle", "done"}
  /\ op'[c] # op[c]
  /\ op'[c].kind \in {"register", "transfer"}
  /\ op'[c].errors = <<>>

\* C21: a call made with no acting address returns null at once as Wallet not
\* connected: it requests no settlement, stores no object, writes no row and
\* leaves isProcessing false; and a call that goes on has an acting address.
C21_NotConnectedDoesNothing ==
  [][\A c \in Clients :
       Called(c)
         => IF op'[c].addr = ""
              THEN /\ op'[c].pc = "done"
                   /\ op'[c].toast = "Wallet not connected"
                   /\ op'[c].returned = <<>>
                   /\ op'[c].hash = 0
                   /\ op'[c].wrote = {}
                   /\ store' = store
                   /\ txCount' = txCount
                   /\ isProcessing' = isProcessing
                   /\ ~isProcessing'[c]
                   /\ currentReceipt' = currentReceipt
              ELSE /\ op'[c].toast # "Wallet not connected"
                   /\ isProcessing'[c]]_vars

C21_Witness ==
  \E c, d \in Clients :
    /\ op[c].toast = "Wallet not connected"
    /\ op[d].kind = "register" /\ op[d].pc = "insert"
    /\ properties # <<>>

\* two strings that differ at most in the case of their letters
EqualUpToCase(a, b) ==
  /\ Len(a) = Len(b)
  /\ \A i \in DOMAIN a :
       \/ a[i] = b[i]
       \/ \E j \in DOMAIN UpperAlpha :
            {a[i], b[i]} = {UpperAlpha[j], LowerAlpha[j]}

\* C22: when the property query of a transfer returns the property, the call
\* goes on to settlement if the acting address equals the stored owner wallet
\* up to letter case, and otherwise ends as Unauthorized with no receipt.
C22_OwnershipIgnoresCase ==
  [][\A c \in Clients :
       LET rows == RowsOf(properties, op[c].form.propertyId)
       IN op[c].kind = "transfer" /\ op[c].pc = "lookup" /\ op'[c] # op[c] /\
          op'[c].error = "" /\ rows # <<>>
            => IF EqualUpToCase(Text(rows[1].owner_wallet), Text(op[c].addr))
                 THEN op'[c].pc = "settle" /\ op'[c].toast = ""
                 ELSE /\ op'[c].pc = "done"
                      /\ op'[c].toast = "Unauthorized"
                      /\ op'[c].returned = <<>>]_vars

C22_Witness ==
  \E c, d \in Clients :
    /\ op[c].kind = "transfer" /\ op[c].pc = "settle"
    /\ op[c].addr # op[c].property[1].owner_wallet
    /\ op[d].toast = "Unauthorized"

\* a row of properties without its owner name and owner wallet
Frame(row) == [row EXCEPT !.owner_name = "", !.owner_wallet = ""]

\* C23: no step removes a row of properties or changes its propertyId, land
\* details, registration reference or any other column but owner name and
\* owner wallet; and a step of transferProperty, successful or failed, adds no
\* row and leaves the rows of every other propertyId as they were.
C23_TransferKeepsPropertyFrame ==
  [][/\ \A i \in DOMAIN properties :
          /\ i \in DOMAIN properties'
          /\ Frame(properties'[i]) = Frame(properties[i])
     /\ \A c \in Clients :
          op[c].kind = "transfer" /\ op[c].pc # "done" /\ op'[c] # op[c]
            => /\ Len(properties') = Len(properties)
               /\ \A i \in DOMAIN properties :
                    properties[i].property_id # op[c].form.propertyId
                      => properties'[i] = properties[i]]_vars

C23_Witness ==
  \E c, d \in Clients :
    /\ op[c].kind = "transfer" /\ op[c].returned # <<>>
    /\ "transfers.insert" \in op[c].wrote
    /\ op[d].kind = "transfer" /\ op[d].error = "PersistenceFailed"
    /\ Len(properties) = 2

\* C24: the step in which registerProperty returns a receipt commits one new
\* row of properties whose owner wallet is the acting address, and the
\* receipt, of type registration, has the propertyId, the land details and
\* the transaction hash and block number of that row; when the insert commits
\* no row the call returns null and sets no receipt.
C24_ReceiptMatchesCommittedRow ==
  [][\A c \in Clients :
       op[c].kind = "register" /\ op[c].pc = "insert" /\ op'[c] # op[c]
         => IF op'[c].returned # <<>>
              THEN LET row == properties'[Len(properties')]
                       receipt == op'[c].returned[1]
                   IN /\ Len(properties') = Len(properties) + 1
                      /\ row.owner_wallet = op[c].addr
                      /\ receipt.type = "registration"
                      /\ receipt.propertyId = row.property_id
                      /\ receipt.propertyDetails =
                           [address |-> row.land_address,
                            area |-> row.land_area,
                            surveyNumber |-> row.survey_number,
                            district |-> row.district,
                            state |-> row.state]
                      /\ receipt.parties.ownerWallet = row.owner_wallet
                      /\ receipt.transaction.hash = row.transaction_hash
                      /\ receipt.transaction.blockNumber = row.block_number
                      /\ row.transaction_hash # 0
                      /\ currentReceipt'[c] = <<receipt>>
              ELSE /\ properties' = properties
                   /\ currentReceipt' = currentReceipt]_vars

C24_Witness ==
  \E c, d \in Clients :
    /\ op[c].kind = "register" /\ op[c].returned # <<>>
    /\ op[c].returned[1].transaction.hash = TxHash(MaxTx)
    /\ op[d].kind = "register" /\ op[d].error = "PersistenceFailed"

\* C25 (as claimed): a transfer writes nothing to the store before its
\* settlement has completed, and the step in which it returns a receipt finds
\* its Transfer row committed and commits the owner update: the store's row
\* of the property then names the buyer.
C25_ReceiptAfterBothWrites ==
  [][\A c \in Clients :
       op[c].kind = "transfer" /\ op'[c] # op[c]
         => /\ op[c].pc \in {"lookup", "settle"} => store' = store
            /\ op'[c].returned # <<>>
                 => /\ op[c].pc = "update"
                    /\ \E i \in DOMAIN transfers :
                         /\ transfers[i].transaction_hash = op[c].hash
                         /\ transfers[i].property_id = op[c].form.propertyId
                    /\ \E i \in DOMAIN properties' :
                         /\ properties'[i].property_id = op[c].form.propertyId
                         /\ properties'[i].owner_name = op[c].form.buyerName
                         /\ properties'[i].owner_wallet = op[c].form.buyerWallet]_vars

\* client c's call has passed the connection check and has not returned
InFlight(c) ==
  /\ op[c].kind \in {"register", "transfer"}
  /\ op[c].pc \in {"lookup", "settle", "upload", "insert", "update"}

\* client c's call has returned: a receipt, or null with its toast
Ended(c) ==
  /\ op[c].pc = "done"
  /\ op[c].returned # <<>> \/ op[c].toast # ""

\* C26: with the awaited calls answered, every call that is in flight
\* eventually returns, with a receipt or with null.
C26_EveryCallReturns == \A c \in Clients : InFlight(c) ~> Ended(c)

C26_Witness ==
  \E c, d \in Clients :
    /\ op[c].kind = "transfer" /\ Ended(c) /\ op[c].returned # <<>>
    /\ op[d].kind = "transfer" /\ Ended(d) /\ op[d].returned = <<>>
    /\ txCount = MaxTx

\* C27 (as claimed): once the first transfer of a property, from its
\* registrant A to a buyer B, has returned its receipt, a transfer of that
\* property whose query is answered afterwards is refused as Unauthorized
\* when the acting address is A and goes on to settlement when it is B.
C27_AuthorizationFollowsOwnership ==
  [][\A c, d \in Clients :
       /\ op[d].kind = "transfer" /\ op[d].returned # <<>>
       /\ op[c].kind = "transfer" /\ op[c].pc = "lookup"
       /\ op'[c] # op[c] /\ op'[c].error = ""
       /\ op[c].form.propertyId = op[d].returned[1].propertyId
       /\ registrant[op[c].form.propertyId] # <<>>
       /\ Len(RowsOf(transfers, op[c].form.propertyId)) = 1
       /\ RowsOf(transfers, op[c].form.propertyId)[1].transaction_hash = op[d].hash
       /\ ~SameWallet(registrant[op[c].form.propertyId][1].wallet,
                      op[d].returned[1].parties.buyerWallet)
       => /\ SameWallet(op[c].addr, registrant[op[c].form.propertyId][1].wallet)
               => op'[c].toast = "Unauthorized"
          /\ SameWallet(op[c].addr, op[d].returned[1].parties.buyerWallet)
               => op'[c].pc = "settle"]_vars

\* the store's row of a property, <<>> when it has none
StoreRow(tbl, id) ==
  LET rows == RowsOf(tbl, id) IN IF rows = <<>> THEN <<>> ELSE <<rows[1]>>

\* C28 (as claimed): of two transfers of one property that overlap, each
\* commits its Transfer row only while its acting address is the owner wallet
\* in the store; and when the one that settled first has committed its row
\* last and returns its receipt last (so both had read the owner before
\* either wrote), the store's owner of the property is the buyer of the last
\* committed Transfer row.
C28_OverlappingTransfersSerialize ==
  [][\A c, d \in Clients :
       LET pid == op[c].form.propertyId
           ts == RowsOf(transfers', pid)
           row == StoreRow(properties', pid)
           during == /\ op[d].pc \in {"settle", "insert", "update"}
                     /\ op[d].form.propertyId = pid
                     /\ Len(transfers') > Len(transfers)
           after == /\ op[d].returned # <<>>
                    /\ op[d].returned[1].propertyId = pid
                    /\ op[c].hash < op[d].hash
                    /\ op'[c].returned # <<>>
                    /\ ts[Len(ts)].transaction_hash = op[c].hash
       IN (/\ c # d
           /\ op[c].kind = "transfer" /\ op[c].pc \in {"insert", "update"}
           /\ op'[c] # op[c]
           /\ op[d].kind = "transfer")
            => /\ during
                    => /\ StoreRow(properties, pid) # <<>>
                       /\ SameWallet(StoreRow(properties, pid)[1].owner_wallet,
                                     op[c].addr)
               /\ after
                    => /\ row # <<>>
                       /\ row[1].owner_name = ts[Len(ts)].buyer_name
                       /\ SameWallet(row[1].owner_wallet,
                                     ts[Len(ts)].buyer_wallet)]_vars

\* C29: isProcessing of a hook instance is true exactly while a call made
\* through it has passed the connection check and has not returned: false
\* before any call, after a validation error or a refusal for lack of a
\* wallet, and after every return (receipt, Property Not Found, Unauthorized,
\* thrown error); true in every state of settling, uploading and persisting.
C29_ProcessingWhileInFlight ==
  \A c \in Clients :
    isProcessing[c]
      <=> /\ op[c].kind \in {"register", "transfer"}
          /\ op[c].pc \in {"lookup", "settle", "upload", "insert", "update"}

C29_Witness ==
  \E c, d \in Clients :
    /\ op[c].kind = "transfer" /\ op[c].pc = "done"
    /\ op[c].error = "PersistenceFailed" /\ "transfers.insert" \in op[c].wrote
    /\ ~isProcessing[c]
    /\ op[d].kind = "transfer" /\ op[d].pc = "settle" /\ isProcessing[d]

\* C30 (as claimed): while no registration is in flight, every object in the
\* bucket is stored under the propertyId of a row of properties.
C30_NoOrphanedDocuments ==
  (\A c \in Clients :
     ~(op[c].kind = "register" /\ op[c].pc \in {"settle", "upload", "insert"}))
    => \A n \in storage :
         \E i \in DOMAIN properties : properties[i].property_id = n.propertyId

====
